---- MODULE Spec2Model ----
(***************************************************************************)
(* Capacity planner backend: the session registry (login cap, inactivity   *)
(* sweep, status check, logout, password change), the department access    *)
(* policy for composite project create/update, for employees and for       *)
(* hidden projects, and registration, verification and user management.    *)
(*                                                                         *)
(* Time is counted in minutes.  Session ids are the positions of the rows  *)
(* in the session table (the code uses fresh UUIDs).  Of a session row the *)
(* columns the code reads or updates are kept: user, refresh_token,        *)
(* last_activity, is_active.                                               *)
(***************************************************************************)
EXTENDS Integers, Sequences, FiniteSets, TLC

(***************************************************************************)
(* Bounds of the model                                                     *)
(***************************************************************************)
MaxRows == 3
MaxTime == 2
MaxInflight == 2
\* rows of the session table in the runs with password operations
MaxPwRows == 2
\* ... and in the runs with registration and user management
MaxDirRows == 1
MaxWorkers == 2
\* settings.SESSION_INACTIVITY_TIMEOUT_MINUTES as deployed (env-configurable,
\* default 20); scaled down so that the clock can pass it.
SESSION_INACTIVITY_TIMEOUT_MINUTES == 1

Users == {"ana", "bob"}
\* what a client may type as username; iexact folds case
Usernames == {"ANA", "bob", "nobody"}
Passwords == {"OldPass123!", "NewPass456!", "short"}
\* the confirmation typed with a new password: the same, or a typo
Confirmations(new) == {new, "typo"}
\* the passwords an administrator resets to
ResetPasswords == {"OldPass123!", "NewPass456!"}

(***************************************************************************)
(* Program constants                                                       *)
(***************************************************************************)
MaxActiveSessions == 2
MinPasswordLength == 8
MinTimeoutMinutes == 1

NoClaim == 0
NoRefresh == 0
NoUser == "-"

VARIABLES
    sessions,      \* UserSession table: Seq of rows, id = position
    issued,        \* issued[i]: the credential pair returned by the login that created row i
    password,      \* User.password per user
    now,           \* timezone.now(), minutes
    pendingLogin,  \* per user: login requests between their count and their insert
    resp,          \* the last response sent
    project,       \* the stored Project with its stage rows and budget rows
    presp,         \* the last response of the project endpoints
    actor,         \* the principal whose access is resolved
    verdict,       \* what the access helpers and write checks answer for actor
    employees,     \* Employee table: department and role per row
    eresp,         \* the last response of the employee endpoints
    catalog,       \* Project table: is_hidden and hidden_at per row
    assignments,   \* Assignment table: the ids of the rows
    cresp,         \* the last response of the list, summary and delete endpoints
    users,         \* User table: the rows, with is_active and last_login
    verification,  \* EmailVerification table: at most one row per user
    dresp,         \* the last response of registration, verification and user management
    inflight,      \* per worker: the tracked request between its statements
    handoff,       \* what process_view did with the last request it was given
    ledger,        \* ProjectBudget rows of one project, per department
    lresp          \* the last response of the budget endpoints

registryVars == <<sessions, issued, password, now, pendingLogin, resp, project, presp>>
accessVars == <<actor, verdict>>
staffVars == <<employees, eresp>>
catalogVars == <<catalog, assignments, cresp>>
directoryVars == <<users, verification, dresp>>
trackVars == <<inflight, handoff>>
ledgerVars == <<ledger, lresp>>

\* the state outside the session registry and the composite project
deskVars == <<accessVars, staffVars, catalogVars, directoryVars, trackVars, ledgerVars>>

vars == <<sessions, issued, password, now, pendingLogin, resp, project, presp, deskVars>>

Max(a, b) == IF a >= b THEN a ELSE b

(***************************************************************************)
(* Department access policy: identities                                    *)
(*                                                                         *)
(* Payloads are the JSON bodies of POST/PUT/PATCH on /api/projects/, with  *)
(* the snake_case keys the serializer reads.  A JSON value is a record     *)
(* with its kind; a stage list holds at most one entry per department      *)
(* (DepartmentStageConfig is unique per project and department), so the    *)
(* sort of the signatures is the identity.  Hours are whole numbers, for   *)
(* which |a - b| > 1e-6 is a # b.                                          *)
(***************************************************************************)
\* models.Department
Department == {"PM", "MED", "HD", "MFG", "BUILD", "PRG"}
NoDepartment == "-"
\* department codes as clients type them
VisibleCodes == {"MED", "PRG", "BUILD", "QA"}
StageKeys == {"MED", "PRG"}
HoursKeys == {"MED", "PRG", "med"}

\* a principal: the User flags and the UserProfile columns the helpers read;
\* department "" is a user with neither profile nor employee record
Account(is_superuser, is_staff, department, other_department) ==
    [is_superuser |-> is_superuser, is_staff |-> is_staff,
     department |-> department, other_department |-> other_department]

Pm == Account(FALSE, FALSE, "PM", "")
Med == Account(FALSE, FALSE, "MED", "")
Prg == Account(FALSE, FALSE, "PRG", "")
Mfg == Account(FALSE, FALSE, "MFG", "")
HeadEng == Account(FALSE, FALSE, "OTHER", "Head Engineering")

Principals == {Pm, Med, Prg, Mfg, HeadEng}

\* UserDepartment and OtherDepartment as stored on a profile
UserDepartments == Department \cup {"OTHER", ""}
OtherDepartments == {"", "Business Intelligence", "Head Engineering"}

\* every combination of the attributes
Accounts ==
    { Account(su, st, d, o) : su \in BOOLEAN, st \in BOOLEAN,
                              d \in UserDepartments, o \in OtherDepartments }

\* user.profile
Profile(p) == [department |-> p.department, other_department |-> p.other_department]

\* _resolve_user_department
ResolveUserDepartment(p) == <<Profile(p).department, Profile(p).other_department>>

\* _has_full_access
HasFullAccess(p) ==
    \/ p.is_superuser \/ p.is_staff
    \/ ResolveUserDepartment(p)[1] = "PM"
    \/ /\ ResolveUserDepartment(p)[1] = "OTHER"
       /\ ResolveUserDepartment(p)[2] = "Business Intelligence"

\* _is_read_only_user
IsReadOnlyUser(p) ==
    /\ ResolveUserDepartment(p)[1] = "OTHER"
    /\ ResolveUserDepartment(p)[2] # "Business Intelligence"

\* faulty variant: BUILD and MFG are not treated as one group
CanEditDepartment_NoSharedGroup(p, department_code) ==
    IF HasFullAccess(p) THEN TRUE
    ELSE IF IsReadOnlyUser(p) THEN FALSE
    ELSE LET user_department == ResolveUserDepartment(p)[1]
         IN IF user_department = "" THEN FALSE
            ELSE user_department = department_code

\* _can_edit_department
CanEditDepartment(p, department_code) ==
    IF HasFullAccess(p) THEN TRUE
    ELSE IF IsReadOnlyUser(p) THEN FALSE
    ELSE LET user_department == ResolveUserDepartment(p)[1]
             shared_departments == {"BUILD", "MFG"}
         IN IF user_department = "" THEN FALSE
            ELSE IF user_department \in shared_departments
                    /\ department_code \in shared_departments THEN TRUE
            ELSE user_department = department_code

\* neither full access nor read-only
DepartmentScoped(p) == ~HasFullAccess(p) /\ ~IsReadOnlyUser(p)

\* faulty variant: every full-access principal qualifies
HasBiManagementAccess_AnyFullAccess(p) == HasFullAccess(p)

\* _has_bi_management_access
HasBiManagementAccess(p) ==
    \/ p.is_superuser
    \/ /\ ResolveUserDepartment(p)[1] = "OTHER"
       /\ ResolveUserDepartment(p)[2] = "Business Intelligence"

\* faulty variant: the read-only test comes before the full-access test
EnsureEmployeeEditPermission_ReadOnlyFirst(p, department) ==
    IF IsReadOnlyUser(p) THEN "Forbidden"
    ELSE IF HasFullAccess(p) THEN "Allowed"
    ELSE IF department = "" \/ ~CanEditDepartment(p, department) THEN "Forbidden"
    ELSE "Allowed"

\* EmployeeViewSet._ensure_employee_edit_permission
EnsureEmployeeEditPermission(p, department) ==
    IF HasFullAccess(p) THEN "Allowed"
    ELSE IF IsReadOnlyUser(p) THEN "Forbidden"
    ELSE IF department = "" \/ ~CanEditDepartment(p, department) THEN "Forbidden"
    ELSE "Allowed"

\* AssignmentViewSet._ensure_assignment_edit_permission, by the employee's department
EnsureAssignmentEditPermission(p, department) ==
    IF HasFullAccess(p) THEN "Allowed"
    ELSE IF IsReadOnlyUser(p) THEN "Forbidden"
    ELSE IF ~CanEditDepartment(p, department) THEN "Forbidden"
    ELSE "Allowed"

\* ProjectChangeOrderViewSet._ensure_change_order_permission
EnsureChangeOrderPermission(p, department) ==
    IF HasFullAccess(p) THEN "Allowed"
    ELSE IF IsReadOnlyUser(p) THEN "Forbidden"
    ELSE IF ~CanEditDepartment(p, department) THEN "Forbidden"
    ELSE "Allowed"

\* the tier a write check treats the principal as: the order of its tests
ResolveAccess(p) ==
    IF HasFullAccess(p) THEN "FullAccess"
    ELSE IF IsReadOnlyUser(p) THEN "ReadOnly"
    ELSE "DepartmentScoped"

\* what the helpers and the write checks answer for p about one department
Verdict(p, department) ==
    [department |-> department,
     tier |-> ResolveAccess(p),
     can_edit |-> CanEditDepartment(p, department),
     employee |-> EnsureEmployeeEditPermission(p, department),
     assignment |-> EnsureAssignmentEditPermission(p, department),
     change_order |-> EnsureChangeOrderPermission(p, department)]

NoVerdict ==
    [department |-> NoDepartment, tier |-> "", can_edit |-> FALSE,
     employee |-> "", assignment |-> "", change_order |-> ""]

(***************************************************************************)
(* JSON values and stored field values                                     *)
(***************************************************************************)
Text(s) == [kind |-> "str", str |-> s, int |-> 0]
Number(n) == [kind |-> "int", str |-> "", int |-> n]
Date(iso) == [kind |-> "date", str |-> iso, int |-> 0]
Null == [kind |-> "null", str |-> "", int |-> 0]

NoneComparable == "<None>"

\* ProjectViewSet._as_comparable: '' and None -> None, dates -> isoformat, else str()
AsComparable(value) ==
    CASE value.kind = "null" -> NoneComparable
      [] value.kind = "str"  -> IF value.str = "" THEN NoneComparable ELSE value.str
      [] value.kind = "date" -> value.str
      [] value.kind = "int"  -> ToString(value.int)

\* str.strip().upper() on the codes of the model
Upper(value) == CASE value = "med" -> "MED" [] OTHER -> value

\* ProjectViewSet._normalize_department_code
NormalizeDepartmentCode(value) ==
    LET code == Upper(value) IN
    IF code \in Department THEN code ELSE NoDepartment

SharedFields ==
    {"name", "client", "start_date", "end_date", "facility",
     "number_of_weeks", "project_manager_id"}
\* the model fields without a default: a non-partial body must carry them
RequiredFields == SharedFields \ {"project_manager_id"}

\* int("8") of IntegerField.to_internal_value
ParseInt(s) == CASE s = "8" -> 8 [] s = "12" -> 12 [] OTHER -> 0

\* the serializer field's to_internal_value for a shared field
ToInternalValue(field, value) ==
    CASE field \in {"start_date", "end_date"} -> Date(value.str)
      [] field = "number_of_weeks" ->
            IF value.kind = "int" THEN value ELSE Number(ParseInt(value.str))
      [] OTHER -> value

NoStage == ""
StageEntry(stage, ws, we, start, duration) ==
    [stage |-> stage, week_start |-> ws, week_end |-> we,
     department_start_date |-> start, duration_weeks |-> duration]

\* faulty variant: duration_weeks is part of the signature
NormalizeStageEntry_WithDuration(stage_data) ==
    <<stage_data.stage, stage_data.week_start, stage_data.week_end,
      stage_data.department_start_date, stage_data.duration_weeks>>

\* ProjectViewSet._normalize_stage_entry: duration_weeks is not part of it
NormalizeStageEntry(stage_data) ==
    <<stage_data.stage, stage_data.week_start, stage_data.week_end,
      stage_data.department_start_date>>

\* ProjectViewSet._normalize_stage_entries
NormalizeStageEntries(stage_entries) ==
    [i \in DOMAIN stage_entries |-> NormalizeStageEntry(stage_entries[i])]

(***************************************************************************)
(* The stored project and the request bodies                               *)
(***************************************************************************)
NoFields == [f \in SharedFields |-> Null]
NoStageRows == [k \in StageKeys |-> <<>>]
NoBudgets == [has |-> {}, hours |-> [k \in HoursKeys |-> 0]]

NoProject ==
    [exists |-> FALSE, shared |-> NoFields, visible_in_departments |-> {},
     department_stages |-> NoStageRows, budgets |-> NoBudgets]

SharedPart(keys, name, weeks) ==
    [keys |-> keys,
     val |-> [f \in SharedFields |->
                IF f \notin keys THEN Null
                ELSE CASE f = "name" -> Text(name)
                       [] f = "client" -> Text("Internal")
                       [] f = "start_date" -> Text("2026-01-06")
                       [] f = "end_date" -> Text("2026-02-02")
                       [] f = "facility" -> Text("MX")
                       [] f = "number_of_weeks" -> weeks
                       [] f = "project_manager_id" -> Null]]

StagePart(present, keys, med, prg) ==
    [present |-> present, keys |-> keys,
     list |-> [k \in StageKeys |->
                 IF k \notin keys THEN <<>> ELSE IF k = "MED" THEN med ELSE prg]]

HoursPart(present, keys, med, prg, raw) ==
    [present |-> present, keys |-> keys,
     hours |-> [k \in HoursKeys |->
                  IF k \notin keys THEN 0
                  ELSE CASE k = "MED" -> med [] k = "PRG" -> prg [] k = "med" -> raw]]

VisiblePart(present, list) == [present |-> present, list |-> list]

MedEntry == StageEntry(NoStage, 1, 4, "2026-01-06", 4)
MedEntryLonger == StageEntry(NoStage, 1, 4, "2026-01-06", 9)
PrgEntry == StageEntry("OFFLINE", 1, 5, "2026-01-13", 5)

SharedParts ==
    { SharedPart({}, "", Null),
      SharedPart({"name"}, "Line 4", Null),
      SharedPart({"name"}, "Line 5", Null),
      SharedPart({"number_of_weeks"}, "", Text("8")),
      SharedPart(RequiredFields, "Line 4", Number(8)),
      SharedPart(SharedFields, "Line 5", Number(8)) }

StageParts ==
    { StagePart(FALSE, {}, <<>>, <<>>),
      StagePart(TRUE, {}, <<>>, <<>>),
      StagePart(TRUE, {"MED"}, <<MedEntry>>, <<>>),
      StagePart(TRUE, {"MED"}, <<MedEntryLonger>>, <<>>),
      StagePart(TRUE, {"PRG"}, <<>>, <<PrgEntry>>),
      StagePart(TRUE, {"MED", "PRG"}, <<MedEntry>>, <<PrgEntry>>),
      StagePart(TRUE, {"MED", "PRG"}, <<MedEntryLonger>>, <<PrgEntry>>),
      StagePart(TRUE, {"MED", "PRG"}, <<>>, <<PrgEntry>>) }

HoursParts ==
    { HoursPart(FALSE, {}, 0, 0, 0),
      HoursPart(TRUE, {}, 0, 0, 0),
      HoursPart(TRUE, {"MED"}, 25, 0, 0),
      HoursPart(TRUE, {"PRG"}, 0, 35, 0),
      HoursPart(TRUE, {"MED", "PRG"}, 25, 35, 0),
      HoursPart(TRUE, {"MED", "PRG"}, 0, 35, 0),
      HoursPart(TRUE, {"med"}, 0, 0, 25) }

VisibleParts ==
    { VisiblePart(FALSE, {}),
      VisiblePart(TRUE, {}),
      VisiblePart(TRUE, {"MED"}),
      VisiblePart(TRUE, {"PRG"}),
      VisiblePart(TRUE, {"BUILD"}),
      VisiblePart(TRUE, {"QA"}) }

Body(shared, stages, hours, visible) ==
    [shared |-> shared, department_stages |-> stages,
     department_hours_allocated |-> hours, visible_in_departments |-> visible]

\* number of the three department maps a body carries
PartsPresent(data) ==
    (IF data.department_stages.present THEN 1 ELSE 0)
    + (IF data.department_hours_allocated.present THEN 1 ELSE 0)
    + (IF data.visible_in_departments.present THEN 1 ELSE 0)

Bodies ==
    { Body(s, st, h, v) : s \in SharedParts, st \in StageParts,
                          h \in HoursParts, v \in VisibleParts }

\* the bodies of the tests: own row and budget imported next to MED's unchanged ones
ImportBodies ==
    { Body(SharedPart({}, "", Null), st, h, v) :
        st \in {StagePart(TRUE, {"MED", "PRG"}, <<MedEntry>>, <<PrgEntry>>),
                StagePart(TRUE, {"MED", "PRG"}, <<MedEntryLonger>>, <<PrgEntry>>)},
        h \in {HoursPart(TRUE, {"MED", "PRG"}, 25, 35, 0)},
        v \in {VisiblePart(TRUE, {"PRG"}), VisiblePart(TRUE, {"MED", "PRG"})} }

\* POST bodies: every required field, any combination of the department maps
CreateBodies == {d \in Bodies : RequiredFields \subseteq d.shared.keys}

\* PUT and PATCH bodies
UpdateBodies ==
    {d \in Bodies : PartsPresent(d) = 0
                    \/ (PartsPresent(d) = 1
                        /\ d.shared.keys \in {{}, RequiredFields})}
    \cup ImportBodies

Methods == {"PUT", "PATCH"}

(***************************************************************************)
(* Department access policy: project create and update                     *)
(***************************************************************************)
\* _extract_create_scope_departments: the normalized visibility list
ScopeVisible(data) ==
    IF data.visible_in_departments.present
    THEN {NormalizeDepartmentCode(raw) : raw \in data.visible_in_departments.list}
         \ {NoDepartment}
    ELSE {}

\* _extract_create_scope_departments: the departments with a non-empty stage list
ScopeStaged(data) ==
    IF data.department_stages.present
    THEN {NormalizeDepartmentCode(raw) :
            raw \in {k \in data.department_stages.keys :
                        Len(data.department_stages.list[k]) > 0}} \ {NoDepartment}
    ELSE {}

\* _extract_create_scope_departments: the departments with non-zero hours
ScopeFunded(data) ==
    IF data.department_hours_allocated.present
    THEN {NormalizeDepartmentCode(raw) :
            raw \in {k \in data.department_hours_allocated.keys :
                        data.department_hours_allocated.hours[k] # 0}} \ {NoDepartment}
    ELSE {}

\* faulty variant: the funded departments always count
ExtractCreateScopeDepartments_HoursAlways(data) ==
    ScopeVisible(data) \cup ScopeStaged(data) \cup ScopeFunded(data)

\* ProjectViewSet._extract_create_scope_departments
ExtractCreateScopeDepartments(data) ==
    IF ScopeVisible(data) \cup ScopeStaged(data) # {}
    THEN ScopeVisible(data) \cup ScopeStaged(data)
    ELSE ScopeFunded(data)

\* the signatures of the stored stage rows, per stored department
ExistingStageSignatures(proj, department) ==
    IF department \in StageKeys
    THEN NormalizeStageEntries(proj.department_stages[department])
    ELSE <<>>

\* the signatures of the body's stage lists, per normalized department
PayloadStageSignatures(data, department) ==
    LET raw == CHOOSE k \in data.department_stages.keys :
                   NormalizeDepartmentCode(k) = department
    IN NormalizeStageEntries(data.department_stages.list[raw])

\* _changed_departments_from_payload: stage lists replace every stored row
ChangedByStages(proj, data) ==
    LET existing_departments == {k \in StageKeys : proj.department_stages[k] # <<>>}
        payload_departments ==
            {NormalizeDepartmentCode(k) : k \in data.department_stages.keys}
            \ {NoDepartment}
    IN IF data.department_stages.present
       THEN (existing_departments \ payload_departments)
            \cup {d \in payload_departments :
                     PayloadStageSignatures(data, d) # ExistingStageSignatures(proj, d)}
       ELSE {}

\* existing_hours.get(department), 0.0 without a budget row
ExistingHours(proj, department) ==
    IF department \in proj.budgets.has THEN proj.budgets.hours[department] ELSE 0

\* _changed_departments_from_payload: hours that differ from the stored ones
ChangedByHours(proj, data) ==
    IF data.department_hours_allocated.present
    THEN {NormalizeDepartmentCode(k) :
            k \in {r \in data.department_hours_allocated.keys :
                     /\ NormalizeDepartmentCode(r) # NoDepartment
                     /\ data.department_hours_allocated.hours[r]
                          # ExistingHours(proj, NormalizeDepartmentCode(r))}}
    ELSE {}

\* _changed_departments_from_payload: symmetric difference of the visibility sets
ChangedByVisible(proj, data) ==
    LET incoming_visible ==
            {NormalizeDepartmentCode(r) : r \in data.visible_in_departments.list}
            \ {NoDepartment}
        current_visible ==
            {NormalizeDepartmentCode(r) : r \in proj.visible_in_departments}
            \ {NoDepartment}
    IN IF data.visible_in_departments.present
       THEN (incoming_visible \ current_visible) \cup (current_visible \ incoming_visible)
       ELSE {}

\* faulty variant: the hours map is not compared
ChangedDepartmentsFromPayload_IgnoresHours(proj, data) ==
    ChangedByStages(proj, data) \cup ChangedByVisible(proj, data)

\* ProjectViewSet._changed_departments_from_payload
ChangedDepartmentsFromPayload(proj, data) ==
    ChangedByStages(proj, data) \cup ChangedByHours(proj, data)
    \cup ChangedByVisible(proj, data)

\* ProjectViewSet._shared_project_fields_modified
SharedProjectFieldsModified(proj, data) ==
    \E f \in data.shared.keys :
        AsComparable(data.shared.val[f]) # AsComparable(proj.shared[f])

\* ProjectViewSet._ensure_project_create_permission
EnsureProjectCreatePermission(p, data) ==
    IF HasFullAccess(p) THEN "allow"
    ELSE IF IsReadOnlyUser(p) THEN "Forbidden"
    ELSE LET target_departments == ExtractCreateScopeDepartments(data) IN
         IF target_departments = {} THEN "Forbidden"
         ELSE IF \E dept \in target_departments : ~CanEditDepartment(p, dept)
              THEN "Forbidden"
         ELSE "allow"

\* ProjectViewSet._ensure_project_update_permission
EnsureProjectUpdatePermission(p, proj, data) ==
    IF HasFullAccess(p) THEN "allow"
    ELSE IF IsReadOnlyUser(p) THEN "Forbidden"
    ELSE IF SharedProjectFieldsModified(proj, data) THEN "Forbidden"
    ELSE IF \E dept \in ChangedDepartmentsFromPayload(proj, data) :
                ~CanEditDepartment(p, dept)
         THEN "Forbidden"
    ELSE "allow"

(***************************************************************************)
(* ProjectSerializer: what an accepted request writes                      *)
(***************************************************************************)
\* ProjectSerializer._save_department_stages: delete every row, recreate from the body
SaveDepartmentStages(proj, department_stages) ==
    [proj EXCEPT !.department_stages =
        [k \in StageKeys |->
            IF k \in department_stages.keys
            THEN [i \in DOMAIN department_stages.list[k] |->
                    LET stage_config == department_stages.list[k][i] IN
                    StageEntry(stage_config.stage, stage_config.week_start,
                               stage_config.week_end,
                               stage_config.department_start_date,
                               stage_config.duration_weeks)]
            ELSE <<>>]]

\* ProjectSerializer._save_department_budgets: update_or_create per key of the body
SaveDepartmentBudgets(proj, department_hours) ==
    [proj EXCEPT !.budgets =
        [has |-> proj.budgets.has \cup department_hours.keys,
         hours |-> [k \in HoursKeys |->
                      IF k \in department_hours.keys THEN department_hours.hours[k]
                      ELSE proj.budgets.hours[k]]]]

\* ModelSerializer.create/update: the validated model fields
SaveModelFields(proj, data, partial) ==
    [proj EXCEPT
        !.exists = TRUE,
        !.shared = [f \in SharedFields |->
                      IF f \in data.shared.keys
                         /\ (f # "project_manager_id" \/ data.shared.val[f].kind # "null")
                      THEN ToInternalValue(f, data.shared.val[f])
                      ELSE proj.shared[f]],
        !.visible_in_departments =
            IF data.visible_in_departments.present THEN data.visible_in_departments.list
            ELSE IF partial THEN proj.visible_in_departments
            ELSE {}]

\* ProjectSerializer.create / ProjectSerializer.update
SerializerSave(proj, data, partial) ==
    LET p1 == SaveModelFields(proj, data, partial)
        p2 == IF data.department_stages.present /\ data.department_stages.keys # {}
              THEN SaveDepartmentStages(p1, data.department_stages) ELSE p1
    IN IF data.department_hours_allocated.present
          /\ data.department_hours_allocated.keys # {}
       THEN SaveDepartmentBudgets(p2, data.department_hours_allocated) ELSE p2

\* ProjectViewSet.create/update after a 2xx: get_or_create each budget, then set its hours
SyncBudgets(proj, data) ==
    IF data.department_hours_allocated.present
    THEN SaveDepartmentBudgets(proj, data.department_hours_allocated)
    ELSE proj

Answer(status, proj) == [status |-> status, project |-> proj]

\* ProjectViewSet.perform_create, then ProjectViewSet.create
CreateProject(p, data) ==
    IF EnsureProjectCreatePermission(p, data) = "allow"
    THEN Answer("Created", SyncBudgets(SerializerSave(NoProject, data, FALSE), data))
    ELSE Answer("Forbidden", NoProject)

\* faulty variant: the serializer saves before the permission is checked
UpdateProject_SaveThenCheck(p, proj, data, partial) ==
    IF EnsureProjectUpdatePermission(p, proj, data) = "allow"
    THEN Answer("OK", SyncBudgets(SerializerSave(proj, data, partial), data))
    ELSE Answer("Forbidden", SerializerSave(proj, data, partial))

\* ProjectViewSet.perform_update, then ProjectViewSet.update
UpdateProject(p, proj, data, partial) ==
    IF EnsureProjectUpdatePermission(p, proj, data) = "allow"
    THEN Answer("OK", SyncBudgets(SerializerSave(proj, data, partial), data))
    ELSE Answer("Forbidden", proj)

ProjectResponse(op, p, partial, data, status, before) ==
    [op |-> op, principal |-> p, partial |-> partial, data |-> data,
     status |-> status, before |-> before]

NoProjectResponse ==
    ProjectResponse("none", Pm, FALSE,
                    Body(SharedPart({}, "", Null), StagePart(FALSE, {}, <<>>, <<>>),
                         HoursPart(FALSE, {}, 0, 0, 0), VisiblePart(FALSE, {})),
                    "none", NoProject)

(***************************************************************************)
(* Session registry                                                        *)
(***************************************************************************)
\* User.objects.filter(username__iexact=username).first()
FoldCase(name) ==
    CASE name = "ANA" -> "ana"
      [] OTHER -> name

LookupUser(name) ==
    IF FoldCase(name) \in Users THEN FoldCase(name) ELSE NoUser

InactivityTimeout == Max(MinTimeoutMinutes, SESSION_INACTIVITY_TIMEOUT_MINUTES)

ActiveRows(S, u) == {i \in DOMAIN S : S[i].user = u /\ S[i].is_active}

ActiveCount(S, u) == Cardinality(ActiveRows(S, u))

\* UserSession.objects.filter(is_active=True, last_activity__lt=threshold).update(is_active=False)
Sweep(S, threshold) ==
    [i \in DOMAIN S |->
        IF S[i].is_active /\ S[i].last_activity < threshold
        THEN [S[i] EXCEPT !.is_active = FALSE]
        ELSE S[i]]

\* the same update restricted to user=request.user
SweepUser(S, u, threshold) ==
    [i \in DOMAIN S |->
        IF S[i].user = u /\ S[i].is_active /\ S[i].last_activity < threshold
        THEN [S[i] EXCEPT !.is_active = FALSE]
        ELSE S[i]]

\* RefreshToken.for_user(user) with the custom claims; str(refresh.access_token)
MintCredential(u, tokenId) ==
    [user_id |-> u, session_id |-> NoClaim, refresh |-> tokenId]

\* faulty variant: login reuses an inactive row of the user instead of inserting
CreateSession_Reactivates(S, u, tokenId, t) ==
    IF \E i \in DOMAIN S : S[i].user = u /\ ~S[i].is_active
    THEN LET i == CHOOSE j \in DOMAIN S : S[j].user = u /\ ~S[j].is_active
         IN [S EXCEPT ![i] = [user |-> u, refresh_token |-> tokenId,
                              last_activity |-> t, is_active |-> TRUE]]
    ELSE Append(S, [user |-> u, refresh_token |-> tokenId,
                    last_activity |-> t, is_active |-> TRUE])

\* UserSession.objects.create(user=user, refresh_token=..., is_active=True)
CreateSession(S, u, tokenId, t) ==
    Append(S, [user |-> u, refresh_token |-> tokenId,
               last_activity |-> t, is_active |-> TRUE])

\* .filter(user_id=user_id, is_active=True).order_by('-last_activity').first()
LatestActive(S, u) ==
    {i \in ActiveRows(S, u) :
        \A j \in ActiveRows(S, u) : S[j].last_activity <= S[i].last_activity}

\* faulty variant: the latest session is selected before the sweep has run
MiddlewarePicks_BeforeSweep(S, c, t) ==
    IF LatestActive(S, c.user_id) = {} THEN {0} ELSE LatestActive(S, c.user_id)

\* the sweep, then the row the legacy branch selects (0 when there is none)
MiddlewarePicks(S, c, t) ==
    LET S1 == Sweep(S, t - InactivityTimeout)
    IN IF LatestActive(S1, c.user_id) = {} THEN {0} ELSE LatestActive(S1, c.user_id)

\* SessionActivityMiddleware.process_view on a path that is not excluded
ProcessView(S, c, t, pick) ==
    LET S1 == Sweep(S, t - InactivityTimeout)
    IN IF c.session_id # NoClaim
       THEN [i \in DOMAIN S1 |->
                IF i = c.session_id /\ S1[i].user = c.user_id /\ S1[i].is_active
                THEN [S1[i] EXCEPT !.last_activity = t]
                ELSE S1[i]]
       ELSE [i \in DOMAIN S1 |->
                IF i = pick THEN [S1[i] EXCEPT !.last_activity = t] ELSE S1[i]]

\* faulty variant: the refresh branch does not filter on user=request.user
LogoutTargets_AnyOwner(S, c, refresh) ==
    IF c.session_id # NoClaim
    THEN {i \in ActiveRows(S, c.user_id) : i = c.session_id}
    ELSE IF refresh # NoRefresh
    THEN {i \in DOMAIN S : S[i].is_active /\ S[i].refresh_token = refresh}
    ELSE ActiveRows(S, c.user_id)

\* LogoutView.post: the three-way choice of the rows to deactivate
LogoutTargets(S, c, refresh) ==
    IF c.session_id # NoClaim
    THEN {i \in ActiveRows(S, c.user_id) : i = c.session_id}
    ELSE IF refresh # NoRefresh
    THEN {i \in ActiveRows(S, c.user_id) : S[i].refresh_token = refresh}
    ELSE ActiveRows(S, c.user_id)

\* faulty variant: the logout stamps the rows but leaves them flagged active
LogoutPost_KeepsFlag(S, c, refresh, t) ==
    [i \in DOMAIN S |->
        IF i \in LogoutTargets(S, c, refresh)
        THEN [S[i] EXCEPT !.last_activity = t]
        ELSE S[i]]

\* ... .update(is_active=False, last_activity=timezone.now())
LogoutPost(S, c, refresh, t) ==
    [i \in DOMAIN S |->
        IF i \in LogoutTargets(S, c, refresh)
        THEN [S[i] EXCEPT !.is_active = FALSE, !.last_activity = t]
        ELSE S[i]]

\* SessionStatusView.get: the answer computed after the sweep
StatusAnswer(S, c) ==
    IF c.session_id # NoClaim
    THEN IF c.session_id \in DOMAIN S
            /\ S[c.session_id].user = c.user_id
            /\ S[c.session_id].is_active
         THEN "Active" ELSE "Unauthorized"
    ELSE IF ActiveCount(S, c.user_id) > 0 THEN "Active" ELSE "Unauthorized"

\* faulty variant: only the stale sessions of the user are closed
InvalidateAll_OnlyStale(S, u) ==
    [i \in DOMAIN S |->
        IF S[i].user = u /\ S[i].last_activity < now
        THEN [S[i] EXCEPT !.is_active = FALSE] ELSE S[i]]

\* UserSession.objects.filter(user=user).update(is_active=False)
InvalidateAll(S, u) ==
    [i \in DOMAIN S |->
        IF S[i].user = u THEN [S[i] EXCEPT !.is_active = FALSE] ELSE S[i]]

\* the departments whose budget rows are written, and the hours clients send
BudgetDepartments == {"MED", "PRG"}
BudgetHours == {0, 5}

\* hours_utilized / hours_forecast of a request body: a number, or the key left out
Given(n) == [given |-> TRUE, value |-> n]
NotGiven == [given |-> FALSE, value |-> 0]
HoursInputs == {Given(n) : n \in BudgetHours} \cup {NotGiven}

BudgetRow(hours_allocated, hours_utilized, hours_forecast) ==
    [exists |-> TRUE, hours_allocated |-> hours_allocated,
     hours_utilized |-> hours_utilized, hours_forecast |-> hours_forecast]
NoBudgetRow ==
    [exists |-> FALSE, hours_allocated |-> 0, hours_utilized |-> 0, hours_forecast |-> 0]

\* ProjectBudget.objects.get_or_create(..., defaults=...), then the update of
\* the fields that are not None when the row was already there
GetOrCreateBudget(row, hours_utilized, hours_forecast) ==
    IF ~row.exists
    THEN BudgetRow(0, hours_utilized.value, hours_forecast.value)
    ELSE [row EXCEPT
            !.hours_utilized = IF hours_utilized.given THEN hours_utilized.value ELSE @,
            !.hours_forecast = IF hours_forecast.given THEN hours_forecast.value ELSE @]

LedgerResponse(op, p, department, status, before) ==
    [op |-> op, principal |-> p, department |-> department, status |-> status,
     before |-> before]
NoLedgerResponse ==
    LedgerResponse("none", Pm, "", "none", [d \in BudgetDepartments |-> NoBudgetRow])

\* the paths process_view returns from at once, and one path it tracks
ExcludedPaths == {"/api/token/", "/api/token/refresh/", "/api/register/",
                  "/api/verify-email/", "/api/verify-code/", "/api/session-status/"}
Paths == ExcludedPaths \cup {"/api/projects/"}

\* Authorization headers: none, another scheme, and a bearer token that is
\* garbage, expired, or the access credential number k
HeaderKinds == {"absent", "basic", "malformed", "expired", "valid"}
Header(kind, k) == [kind |-> kind, cred |-> k]

\* auth_header.startswith('Bearer ')
IsBearer(h) == h.kind \in {"malformed", "expired", "valid"}

\* UntypedToken(token): what it raises
Decode(h) == IF h.kind = "valid" THEN "none" ELSE "TokenError"

\* faulty variant: the handler only catches the authentication error
Caught_InvalidTokenOnly == {"InvalidToken"}

\* except (InvalidToken, TokenError): pass
Caught == {"InvalidToken", "TokenError"}

\* process_view: None hands the request to the view, an exception that is
\* not caught fails it
Handoff(path, h, outcome) == [path |-> path, kind |-> h.kind, outcome |-> outcome]
NoHandoff == [path |-> "", kind |-> "", outcome |-> "none"]

\* the worker processes that serve requests side by side
Workers == 1..MaxWorkers

\* a worker that is not in the middle of a tracked request
Idle == [pc |-> "idle", cred |-> 0, at |-> 0, row |-> 0]

\* faulty variant: save() without update_fields writes back the active flag it read
SaveLastActivity_AllFields(S, row, t) ==
    [S EXCEPT ![row].last_activity = t, ![row].is_active = TRUE]

\* latest_session.last_activity = now; latest_session.save(update_fields=['last_activity'])
SaveLastActivity(S, row, t) ==
    [S EXCEPT ![row].last_activity = t]

Response(op, u, row, status, old, new) ==
    [op |-> op, user |-> u, row |-> row, status |-> status, old |-> old, new |-> new]

NoResponse == Response("other", NoUser, 0, "none", "", "")

(***************************************************************************)
(* Employees                                                               *)
(***************************************************************************)
EmployeeIds == {"med_employee", "pm_employee"}

\* a PATCH body of /api/employees/{id}/: "" is an absent key
EmployeePatches ==
    [role : {"", "Mechanical Lead Engineer"}, department : {"", "MED", "PM", "HD"}]

Employee(department, role) == [department |-> department, role |-> role]

EmployeeResponse(p, id, data, status, before) ==
    [op |-> "update", principal |-> p, id |-> id, data |-> data, status |-> status,
     before |-> before]

NoEmployeeResponse ==
    [op |-> "none", principal |-> Pm, id |-> "", data |-> [role |-> "", department |-> ""],
     status |-> "", before |-> Employee("", "")]

\* EmployeeSerializer.update on a partial body: the keys present are assigned
PatchedEmployee(row, data) ==
    [department |-> IF data.department # "" THEN data.department ELSE row.department,
     role |-> IF data.role # "" THEN data.role ELSE row.role]

StaffInit ==
    /\ employees = [id \in EmployeeIds |->
                       IF id = "med_employee" THEN Employee("MED", "Mechanical Engineer")
                       ELSE Employee("PM", "Project Manager")]
    /\ eresp = NoEmployeeResponse

(***************************************************************************)
(* Hidden projects: lists, summary, soft delete                            *)
(***************************************************************************)
ProjectIds == {"alpha", "beta"}
AssignmentIds == {"a1", "b1"}

\* Assignment.project and Assignment.employee.department
AssignmentProject(a) == IF a = "a1" THEN "alpha" ELSE "beta"
AssignmentDepartment(a) == IF a = "a1" THEN "PRG" ELSE "MED"

\* the values of the include_hidden query parameter; "" is an absent parameter
HiddenParams == {"", "true", "TRUE", "1", "false", "maybe"}
Lower(value) == IF value = "TRUE" THEN "true" ELSE value

\* _query_param_as_bool
QueryParamAsBool(value, default) ==
    IF value = "" THEN default
    ELSE IF Lower(value) \in {"1", "true", "yes", "y", "on"} THEN TRUE
    ELSE IF Lower(value) \in {"0", "false", "no", "n", "off"} THEN FALSE
    ELSE default

\* Project.is_hidden, Project.hidden_at (at is read only when set)
Shown == [is_hidden |-> FALSE, hidden_at |-> [set |-> FALSE, at |-> 0]]
HiddenAt(t) == [is_hidden |-> TRUE, hidden_at |-> [set |-> TRUE, at |-> t]]

\* faulty variant: include_hidden is honoured for every principal
HiddenGate_NoCheck(p, param) ==
    IF QueryParamAsBool(param, FALSE) THEN "All" ELSE "Visible"

\* the head of get_queryset and of summary_by_project_dept: who may ask for
\* hidden rows, and which rows the query keeps
HiddenGate(p, param) ==
    LET include_hidden == QueryParamAsBool(param, FALSE) IN
    IF include_hidden /\ ~HasFullAccess(p) THEN "Forbidden"
    ELSE IF include_hidden THEN "All"
    ELSE "Visible"

\* ProjectViewSet.get_queryset
ProjectRows(cat, gate) ==
    { id \in ProjectIds : gate = "All" \/ ~cat[id].is_hidden }

\* AssignmentViewSet.get_queryset
AssignmentRows(cat, asg, gate) ==
    { a \in asg : gate = "All" \/ ~cat[AssignmentProject(a)].is_hidden }

\* summary_by_project_dept: the projects that have a row in the summary
SummaryRows(cat, asg, project_ids, gate) ==
    { AssignmentProject(a) :
        a \in { b \in AssignmentRows(cat, asg, gate) : AssignmentProject(b) \in project_ids } }

\* faulty variant: the delete is open to every principal
PerformDestroy_AnyPrincipal(p, cat, id, t) ==
    IF ~cat[id].is_hidden
    THEN [status |-> "NoContent", catalog |-> [cat EXCEPT ![id] = HiddenAt(t)]]
    ELSE [status |-> "NoContent", catalog |-> cat]

\* ProjectViewSet.perform_destroy
PerformDestroy(p, cat, id, t) ==
    IF ~HasFullAccess(p) THEN [status |-> "Forbidden", catalog |-> cat]
    ELSE IF ~cat[id].is_hidden
    THEN [status |-> "NoContent", catalog |-> [cat EXCEPT ![id] = HiddenAt(t)]]
    ELSE [status |-> "NoContent", catalog |-> cat]

CatalogResponse(op, p, param, target, status, rows, before, kept) ==
    [op |-> op, principal |-> p, param |-> param, target |-> target, status |-> status,
     rows |-> rows, before |-> before, kept |-> kept]

NoCatalogResponse == CatalogResponse("none", Pm, "", "", "", {}, Shown, {})

CatalogInit ==
    /\ catalog = [id \in ProjectIds |-> Shown]
    /\ assignments = AssignmentIds
    /\ cresp = NoCatalogResponse

(***************************************************************************)
(* Users, registration and e-mail verification                             *)
(***************************************************************************)
MaxVerificationAttempts == 5
CODE_EXPIRY_MINUTES == 15

\* a nullable timestamp (at is read only when set)
Unset == [set |-> FALSE, at |-> 0]
At(t) == [set |-> TRUE, at |-> t]

\* a row of auth.User, or its absence
NoSuchUser == [exists |-> FALSE, is_active |-> FALSE, last_login |-> Unset]
UserRow(is_active) == [exists |-> TRUE, is_active |-> is_active, last_login |-> Unset]

\* a row of EmailVerification, or its absence
NoVerification ==
    [exists |-> FALSE, code |-> "", attempts |-> 0, created_at |-> 0, verified_at |-> Unset]

\* the codes a client types
Codes == {"123456", "654321", ""}

\* EmailVerification.is_expired / is_verified / max_attempts_reached
IsExpired(v, t) == t > v.created_at + CODE_EXPIRY_MINUTES
IsVerified(v) == v.verified_at.set
MaxAttemptsReached(v) == v.attempts >= MaxVerificationAttempts

DirectoryResponse(op, by, target, status, old, kept) ==
    [op |-> op, by |-> by, target |-> target, status |-> status, old |-> old, kept |-> kept]

NoDirectoryResponse == DirectoryResponse("none", Pm, NoUser, "", "", <<>>)

TotalPending == pendingLogin["ana"] + pendingLogin["bob"]

\* nothing in flight, no sessions, no project; the fixtures of the other tables
QuietInit ==
    /\ sessions = <<>>
    /\ issued = <<>>
    /\ now = 0
    /\ pendingLogin = [u \in Users |-> 0]
    /\ resp = NoResponse
    /\ project = NoProject
    /\ presp = NoProjectResponse
    /\ verdict = NoVerdict
    /\ StaffInit
    /\ CatalogInit
    /\ verification = [u \in Users |-> NoVerification]
    /\ dresp = NoDirectoryResponse
    /\ inflight = [r \in Workers |-> Idle]
    /\ handoff = NoHandoff
    /\ ledger = [d \in BudgetDepartments |-> NoBudgetRow]
    /\ lresp = NoLedgerResponse

Init ==
    /\ QuietInit
    /\ password = [u \in Users |-> "OldPass123!"]
    /\ users = [u \in Users |-> UserRow(TRUE)]
    /\ actor = Pm

\* faulty variant: the login sweeps before it counts, so stale sessions do not count
LoginOutcome_SweepsFirst(S, pwd, name, pw) ==
    LET u == LookupUser(name) IN
    IF u = NoUser \/ ~users[u].exists \/ pwd[u] # pw THEN "InvalidCredentials"
    ELSE IF ActiveCount(Sweep(S, now - InactivityTimeout), u) >= MaxActiveSessions
    THEN "TooManySessions"
    ELSE "Accepted"

\* faulty variant: the cap test lets a third session in
LoginOutcome_CapOffByOne(S, pwd, name, pw) ==
    LET u == LookupUser(name) IN
    IF u = NoUser \/ ~users[u].exists \/ pwd[u] # pw THEN "InvalidCredentials"
    ELSE IF ActiveCount(S, u) > MaxActiveSessions THEN "TooManySessions"
    ELSE "Accepted"

\* CaseInsensitiveTokenObtainPairSerializer.validate: credentials, then the cap
LoginOutcome(S, pwd, name, pw) ==
    LET u == LookupUser(name) IN
    IF u = NoUser \/ ~users[u].exists \/ pwd[u] # pw THEN "InvalidCredentials"
    ELSE IF ActiveCount(S, u) >= MaxActiveSessions THEN "TooManySessions"
    ELSE "Accepted"

\* a login request up to its count of the active sessions
LoginCheck(name, pw, rows) ==
    LET u == LookupUser(name)
        outcome == LoginOutcome(sessions, password, name, pw)
    IN
    /\ resp = NoResponse
    /\ IF outcome = "Accepted"
       THEN /\ Len(sessions) + TotalPending < rows
            /\ TotalPending < MaxInflight
            /\ pendingLogin' = [pendingLogin EXCEPT ![u] = @ + 1]
            /\ resp' = NoResponse
       ELSE /\ resp' = Response("login", u, 0, outcome, "", "")
            /\ UNCHANGED pendingLogin
    /\ UNCHANGED <<sessions, issued, password, now, project, presp, deskVars>>

\* ... and from minting the credential pair to the response
LoginInsert(u) ==
    /\ resp = NoResponse
    /\ pendingLogin[u] > 0
    /\ pendingLogin' = [pendingLogin EXCEPT ![u] = @ - 1]
    /\ sessions' = CreateSession(sessions, u, Len(sessions) + 1, now)
    /\ issued' = Append(issued, MintCredential(u, Len(sessions) + 1))
    /\ resp' = Response("login", u, Len(sessions) + 1, "OK", "", "")
    /\ UNCHANGED <<password, now, project, presp, deskVars>>

\* any authenticated request to a path that the middleware does not skip
ApiRequest(k) ==
    /\ resp = NoResponse
    /\ k \in DOMAIN issued
    /\ \E pick \in MiddlewarePicks(sessions, issued[k], now) :
          sessions' = ProcessView(sessions, issued[k], now, pick)
    /\ resp' = NoResponse
    /\ UNCHANGED <<issued, password, now, pendingLogin, project, presp, deskVars>>

\* GET /api/session-status/ (skipped by the middleware)
SessionStatus(k) ==
    /\ resp = NoResponse
    /\ k \in DOMAIN issued
    /\ LET c == issued[k]
           S1 == SweepUser(sessions, c.user_id, now - InactivityTimeout)
       IN /\ sessions' = S1
          /\ resp' = Response("status", c.user_id, k, StatusAnswer(S1, c), "", "")
    /\ UNCHANGED <<issued, password, now, pendingLogin, project, presp, deskVars>>

\* POST logout: middleware, then LogoutView.post
Logout(k, refresh) ==
    /\ resp = NoResponse
    /\ k \in DOMAIN issued
    /\ \E pick \in MiddlewarePicks(sessions, issued[k], now) :
          sessions' = LogoutPost(ProcessView(sessions, issued[k], now, pick),
                                 issued[k], refresh, now)
    /\ resp' = Response("logout", issued[k].user_id, k, "OK", "", "")
    /\ UNCHANGED <<issued, password, now, pendingLogin, project, presp, deskVars>>

\* ChangePasswordView.post: the outcome of its validation chain
ChangePasswordStatus(u, current, new, confirm) ==
    IF current = "" \/ new = "" \/ confirm = "" THEN "BadRequest"
    ELSE IF new # confirm THEN "BadRequest"
    ELSE IF current = new THEN "BadRequest"
    ELSE IF password[u] # current THEN "Unauthorized"
    ELSE IF Len(new) < MinPasswordLength THEN "BadRequest"
    ELSE "OK"

\* POST change-password: middleware, then ChangePasswordView.post
ChangePassword(k, current, new, confirm) ==
    /\ resp = NoResponse
    /\ k \in DOMAIN issued
    /\ LET u == issued[k].user_id
           st == ChangePasswordStatus(u, current, new, confirm)
       IN \E pick \in MiddlewarePicks(sessions, issued[k], now) :
            LET S1 == ProcessView(sessions, issued[k], now, pick) IN
            IF st = "OK"
            THEN /\ password' = [password EXCEPT ![u] = new]
                 /\ sessions' = InvalidateAll(S1, u)
                 /\ resp' = Response("change_password", u, 0, st, current, new)
            ELSE /\ sessions' = S1
                 /\ resp' = Response("change_password", u, 0, st, "", "")
                 /\ UNCHANGED password
    /\ UNCHANGED <<issued, now, pendingLogin, project, presp, deskVars>>

\* administrative password reset of a registered user (by a BI manager)
AdminResetPassword(u, new) ==
    /\ resp = NoResponse
    /\ new # ""
    /\ password' = [password EXCEPT ![u] = new]
    /\ sessions' = InvalidateAll(sessions, u)
    /\ resp' = Response("reset_password", u, 0, "OK", password[u], new)
    /\ UNCHANGED <<issued, now, pendingLogin, project, presp, deskVars>>

\* add_arguments: --minutes is any integer; when it is left out, the floored setting
DefaultMinutes == Max(MinTimeoutMinutes, SESSION_INACTIVITY_TIMEOUT_MINUTES)
SuppliedMinutes == (0 - MinTimeoutMinutes)..MinTimeoutMinutes
MinutesOptions == {DefaultMinutes} \cup SuppliedMinutes

\* manage.py cleanup_inactive_sessions [--minutes N]: handle uses the option as it is
CleanupCommand(minutes) ==
    /\ resp = NoResponse
    /\ sessions' = Sweep(sessions, now - minutes)
    /\ sessions' # sessions
    /\ resp' = NoResponse
    /\ UNCHANGED <<issued, password, now, pendingLogin, project, presp, deskVars>>

\* the clock advances between requests
Tick ==
    /\ resp = NoResponse
    /\ now < MaxTime
    /\ now' = now + 1
    /\ resp' = NoResponse
    /\ UNCHANGED <<sessions, issued, password, pendingLogin, project, presp, deskVars>>

\* the response leaves the server
SendResponse ==
    /\ resp # NoResponse
    /\ resp' = NoResponse
    /\ UNCHANGED <<sessions, issued, password, now, pendingLogin, project, presp, deskVars>>

\* the requests of the session registry, with the session table bounded to rows
SessionNext(rows) ==
    \/ SendResponse
    \/ \E name \in Usernames, pw \in ResetPasswords : LoginCheck(name, pw, rows)
    \/ \E u \in Users : LoginInsert(u)
    \/ \E k \in 1..MaxRows : ApiRequest(k)
    \/ \E k \in 1..MaxRows : SessionStatus(k)
    \/ \E k \in 1..MaxRows, r \in 0..MaxRows : Logout(k, r)
    \/ \E minutes \in MinutesOptions : CleanupCommand(minutes)
    \/ Tick

Next == SessionNext(MaxRows)

\* the session registry without password operations
Spec == Init /\ [][Next]_vars

PwNext ==
    \/ SessionNext(MaxPwRows)
    \/ \E k \in 1..MaxRows, cur \in Passwords, new \in Passwords :
          \E conf \in Confirmations(new) : ChangePassword(k, cur, new, conf)
    \/ \E u \in Users, new \in ResetPasswords : AdminResetPassword(u, new)

\* the session registry with password change and administrative reset
PwSpec == Init /\ [][PwNext]_vars

(***************************************************************************)
(* Activity tracking, statement by statement                               *)
(***************************************************************************)
\* now = timezone.now() of a tracked request, taken before its first statement
BeginRequest(r, k) ==
    /\ resp = NoResponse
    /\ inflight[r].pc = "idle"
    /\ k \in DOMAIN issued
    /\ inflight' = [inflight EXCEPT ![r] = [pc |-> "sweep", cred |-> k, at |-> now, row |-> 0]]
    /\ UNCHANGED <<registryVars, accessVars, staffVars, catalogVars, directoryVars, handoff, ledgerVars>>

\* the global sweep of the request: one UPDATE statement
SweepStep(r) ==
    /\ resp = NoResponse
    /\ inflight[r].pc = "sweep"
    /\ sessions' = Sweep(sessions, inflight[r].at - InactivityTimeout)
    /\ inflight' = [inflight EXCEPT ![r].pc = "pick"]
    /\ UNCHANGED <<issued, password, now, pendingLogin, resp, project, presp,
                   accessVars, staffVars, catalogVars, directoryVars, handoff, ledgerVars>>

\* with a session_id claim one UPDATE of that row; without it the SELECT of the
\* user's latest active session
PickStep(r) ==
    LET c == issued[inflight[r].cred] IN
    /\ resp = NoResponse
    /\ inflight[r].pc = "pick"
    /\ IF c.session_id # NoClaim
       THEN /\ sessions' = [i \in DOMAIN sessions |->
                               IF i = c.session_id /\ sessions[i].user = c.user_id
                                  /\ sessions[i].is_active
                               THEN [sessions[i] EXCEPT !.last_activity = inflight[r].at]
                               ELSE sessions[i]]
            /\ inflight' = [inflight EXCEPT ![r] = Idle]
       ELSE /\ UNCHANGED sessions
            /\ IF LatestActive(sessions, c.user_id) = {}
               THEN inflight' = [inflight EXCEPT ![r] = Idle]
               ELSE \E pick \in LatestActive(sessions, c.user_id) :
                       inflight' = [inflight EXCEPT ![r].pc = "save", ![r].row = pick]
    /\ UNCHANGED <<issued, password, now, pendingLogin, resp, project, presp,
                   accessVars, staffVars, catalogVars, directoryVars, handoff, ledgerVars>>

\* latest_session.save(update_fields=['last_activity'])
SaveStep(r) ==
    /\ resp = NoResponse
    /\ inflight[r].pc = "save"
    /\ sessions' = SaveLastActivity(sessions, inflight[r].row, inflight[r].at)
    /\ inflight' = [inflight EXCEPT ![r] = Idle]
    /\ UNCHANGED <<issued, password, now, pendingLogin, resp, project, presp,
                   accessVars, staffVars, catalogVars, directoryVars, handoff, ledgerVars>>

\* SessionActivityMiddleware.process_view on any path with any header
TrackedRequest(path, h) ==
    /\ resp = NoResponse
    /\ handoff = NoHandoff
    /\ IF h.kind \in {"expired", "valid"} THEN h.cred \in DOMAIN issued ELSE h.cred = 0
    /\ IF path \in ExcludedPaths \/ ~IsBearer(h)
       THEN /\ handoff' = Handoff(path, h, "view")
            /\ UNCHANGED sessions
       ELSE IF Decode(h) # "none"
       THEN /\ handoff' = Handoff(path, h, IF Decode(h) \in Caught THEN "view" ELSE "raised")
            /\ UNCHANGED sessions
       ELSE /\ \E pick \in MiddlewarePicks(sessions, issued[h.cred], now) :
                  sessions' = ProcessView(sessions, issued[h.cred], now, pick)
            /\ handoff' = Handoff(path, h, "view")
    /\ UNCHANGED <<issued, password, now, pendingLogin, resp, project, presp,
                   accessVars, staffVars, catalogVars, directoryVars, inflight, ledgerVars>>

\* the view takes the request over
HandOver ==
    /\ handoff # NoHandoff
    /\ handoff' = NoHandoff
    /\ UNCHANGED <<registryVars, accessVars, staffVars, catalogVars, directoryVars, inflight, ledgerVars>>

GateNext ==
    \/ SessionNext(MaxDirRows)
    \/ \E path \in Paths, kind \in HeaderKinds, k \in 0..MaxRows :
          TrackedRequest(path, Header(kind, k))
    \/ HandOver

\* the session registry with requests of every path and header kind
GateSpec == Init /\ [][GateNext]_vars

TrackNext ==
    \/ SessionNext(MaxPwRows)
    \/ \E r \in Workers, k \in 1..MaxRows : BeginRequest(r, k)
    \/ \E r \in Workers : SweepStep(r)
    \/ \E r \in Workers : PickStep(r)
    \/ \E r \in Workers : SaveStep(r)

\* the session registry with tracked requests of several workers interleaved
TrackSpec == Init /\ [][TrackNext]_vars

(***************************************************************************)
(* Budget rows                                                             *)
(***************************************************************************)
\* PATCH /api/projects/{id}/update-budget-hours/; a body without department is
\* answered 400 before anything is written
UpdateBudgetHours(p, department, hours_utilized, hours_forecast) ==
    /\ lresp = NoLedgerResponse
    /\ department \in BudgetDepartments
    /\ ledger' = [ledger EXCEPT ![department] =
                     GetOrCreateBudget(@, hours_utilized, hours_forecast)]
    /\ lresp' = LedgerResponse("update_budget_hours", p, department, "OK", ledger)
    /\ UNCHANGED <<registryVars, accessVars, staffVars, catalogVars, directoryVars, trackVars>>

\* POST, PATCH and DELETE of /api/project-budgets/ under _ensure_full_access
BudgetWrite(p, op, department, hours) ==
    /\ lresp = NoLedgerResponse
    /\ ledger[department].exists <=> op # "create"
    /\ ledger' = IF ~HasFullAccess(p) THEN ledger
                 ELSE [ledger EXCEPT ![department] =
                         CASE op = "create" -> BudgetRow(hours, 0, 0)
                           [] op = "update" -> [@ EXCEPT !.hours_allocated = hours]
                           [] OTHER -> NoBudgetRow]
    /\ lresp' = LedgerResponse(op, p, department,
                               IF HasFullAccess(p) THEN "OK" ELSE "Forbidden", ledger)
    /\ UNCHANGED <<registryVars, accessVars, staffVars, catalogVars, directoryVars, trackVars>>

\* the client reads the response
ReadLedgerResponse ==
    /\ lresp # NoLedgerResponse
    /\ lresp' = NoLedgerResponse
    /\ UNCHANGED <<registryVars, accessVars, staffVars, catalogVars, directoryVars, trackVars,
                   ledger>>

LedgerNext ==
    \/ \E p \in Principals, d \in BudgetDepartments, hu \in HoursInputs, hf \in HoursInputs :
          UpdateBudgetHours(p, d, hu, hf)
    \/ \E p \in Principals, op \in {"create", "update", "destroy"},
          d \in BudgetDepartments, h \in BudgetHours : BudgetWrite(p, op, d, h)
    \/ ReadLedgerResponse

\* the endpoints that write the budget rows of a project
LedgerSpec == Init /\ [][LedgerNext]_vars

(***************************************************************************)
(* Project endpoints                                                       *)
(***************************************************************************)
\* POST /api/projects/; a body without a required field is answered 400 before perform_create
ProjectCreate(p, data) ==
    /\ presp = NoProjectResponse
    /\ ~project.exists
    /\ RequiredFields \subseteq data.shared.keys
    /\ project' = CreateProject(p, data).project
    /\ presp' = ProjectResponse("create", p, FALSE, data,
                                CreateProject(p, data).status, project)
    /\ UNCHANGED <<sessions, issued, password, now, pendingLogin, resp, deskVars>>

\* PUT or PATCH /api/projects/{id}/; PUT validates the whole body first
ProjectUpdate(p, method, data) ==
    /\ presp = NoProjectResponse
    /\ project.exists
    /\ method = "PUT" => RequiredFields \subseteq data.shared.keys
    /\ project' = UpdateProject(p, project, data, method = "PATCH").project
    /\ presp' = ProjectResponse("update", p, method = "PATCH", data,
                                UpdateProject(p, project, data, method = "PATCH").status,
                                project)
    /\ UNCHANGED <<sessions, issued, password, now, pendingLogin, resp, deskVars>>

\* the client reads the response before it sends its next request
ReadResponse ==
    /\ presp # NoProjectResponse
    /\ presp' = NoProjectResponse
    /\ UNCHANGED <<sessions, issued, password, now, pendingLogin, resp, project, deskVars>>

ProjNext ==
    \/ ReadResponse
    \/ \E p \in Principals, data \in CreateBodies : ProjectCreate(p, data)
    \/ \E p \in Principals, method \in Methods, data \in UpdateBodies :
          ProjectUpdate(p, method, data)

\* the project endpoints under the department access policy
ProjSpec == Init /\ [][ProjNext]_vars

(***************************************************************************)
(* The access helpers applied to every combination of attributes           *)
(***************************************************************************)
AccessInit ==
    /\ QuietInit
    /\ password = [u \in Users |-> "OldPass123!"]
    /\ users = [u \in Users |-> UserRow(TRUE)]
    /\ actor \in Accounts

\* a write request of actor on an entity of the department
Authorize(department) ==
    /\ verdict = NoVerdict
    /\ verdict' = Verdict(actor, department)
    /\ UNCHANGED <<registryVars, actor, staffVars, catalogVars, directoryVars, trackVars, ledgerVars>>

\* the answer has been read
Answered ==
    /\ verdict # NoVerdict
    /\ verdict' = NoVerdict
    /\ UNCHANGED <<registryVars, actor, staffVars, catalogVars, directoryVars, trackVars, ledgerVars>>

AccessNext ==
    \/ \E department \in Department \cup {""} : Authorize(department)
    \/ Answered

\* the access helpers as pure functions of the principal's attributes
AccessSpec == AccessInit /\ [][AccessNext]_vars

(***************************************************************************)
(* Employee endpoints                                                      *)
(***************************************************************************)
\* PATCH /api/employees/{id}/: EmployeeViewSet.perform_update
EmployeeUpdate(p, id, data) ==
    LET department == IF data.department # "" THEN data.department
                      ELSE employees[id].department
        allowed == EnsureEmployeeEditPermission(p, department) = "Allowed"
    IN
    /\ eresp = NoEmployeeResponse
    /\ employees' = IF allowed
                    THEN [employees EXCEPT ![id] = PatchedEmployee(@, data)]
                    ELSE employees
    /\ eresp' = EmployeeResponse(p, id, data, IF allowed THEN "OK" ELSE "Forbidden",
                                 employees[id])
    /\ UNCHANGED <<registryVars, accessVars, catalogVars, directoryVars, trackVars, ledgerVars>>

\* the client reads the response
ReadEmployeeResponse ==
    /\ eresp # NoEmployeeResponse
    /\ eresp' = NoEmployeeResponse
    /\ UNCHANGED <<registryVars, accessVars, employees, catalogVars, directoryVars, trackVars, ledgerVars>>

StaffNext ==
    \/ \E p \in Principals, id \in EmployeeIds, data \in EmployeePatches :
          EmployeeUpdate(p, id, data)
    \/ ReadEmployeeResponse

\* the employee endpoints under the department access policy
StaffSpec == Init /\ [][StaffNext]_vars

(***************************************************************************)
(* List, summary and delete endpoints                                      *)
(***************************************************************************)
\* GET /api/projects/
ProjectList(p, param) ==
    LET gate == HiddenGate(p, param) IN
    /\ cresp = NoCatalogResponse
    /\ cresp' = IF gate = "Forbidden"
                THEN CatalogResponse("project_list", p, param, "", "Forbidden", {}, Shown, {})
                ELSE CatalogResponse("project_list", p, param, "", "OK",
                                     ProjectRows(catalog, gate), Shown, {})
    /\ UNCHANGED <<registryVars, accessVars, staffVars, catalog, assignments, directoryVars, trackVars, ledgerVars>>

\* GET /api/assignments/
AssignmentList(p, param) ==
    LET gate == HiddenGate(p, param) IN
    /\ cresp = NoCatalogResponse
    /\ cresp' = IF gate = "Forbidden"
                THEN CatalogResponse("assignment_list", p, param, "", "Forbidden", {}, Shown, {})
                ELSE CatalogResponse("assignment_list", p, param, "", "OK",
                                     AssignmentRows(catalog, assignments, gate), Shown, {})
    /\ UNCHANGED <<registryVars, accessVars, staffVars, catalog, assignments, directoryVars, trackVars, ledgerVars>>

\* GET /api/assignments/summary-by-project-dept/; a request without
\* project_ids is answered 400 before the parameter is read
SummaryByProjectDept(p, project_ids, param) ==
    LET gate == HiddenGate(p, param) IN
    /\ cresp = NoCatalogResponse
    /\ project_ids # {}
    /\ cresp' = IF gate = "Forbidden"
                THEN CatalogResponse("summary", p, param, "", "Forbidden", {}, Shown, {})
                ELSE CatalogResponse("summary", p, param, "", "OK",
                                     SummaryRows(catalog, assignments, project_ids, gate),
                                     Shown, {})
    /\ UNCHANGED <<registryVars, accessVars, staffVars, catalog, assignments, directoryVars, trackVars, ledgerVars>>

\* DELETE /api/projects/{id}/: get_object over get_queryset, then perform_destroy
ProjectDestroy(p, id, param) ==
    LET gate == HiddenGate(p, param)
        done == PerformDestroy(p, catalog, id, now)
    IN
    /\ cresp = NoCatalogResponse
    /\ IF gate = "Forbidden"
       THEN /\ cresp' = CatalogResponse("destroy", p, param, id, "Forbidden", {},
                                        catalog[id], assignments)
            /\ UNCHANGED catalog
       ELSE IF id \notin ProjectRows(catalog, gate)
       THEN /\ cresp' = CatalogResponse("destroy", p, param, id, "NotFound", {},
                                        catalog[id], assignments)
            /\ UNCHANGED catalog
       ELSE /\ catalog' = done.catalog
            /\ cresp' = CatalogResponse("destroy", p, param, id, done.status, {},
                                        catalog[id], assignments)
    /\ UNCHANGED <<registryVars, accessVars, staffVars, assignments, directoryVars, trackVars, ledgerVars>>

\* DELETE /api/assignments/{id}/: get_object over get_queryset, then perform_destroy
AssignmentDestroy(p, a, param) ==
    LET gate == HiddenGate(p, param)
        status == IF gate = "Forbidden" THEN "Forbidden"
                  ELSE IF a \notin AssignmentRows(catalog, assignments, gate) THEN "NotFound"
                  ELSE IF EnsureAssignmentEditPermission(p, AssignmentDepartment(a)) = "Forbidden"
                  THEN "Forbidden"
                  ELSE "NoContent"
    IN
    /\ cresp = NoCatalogResponse
    /\ assignments' = IF status = "NoContent" THEN assignments \ {a} ELSE assignments
    /\ cresp' = CatalogResponse("assignment_destroy", p, param, a, status, {},
                                catalog[AssignmentProject(a)], assignments)
    /\ UNCHANGED <<registryVars, accessVars, staffVars, catalog, directoryVars, trackVars, ledgerVars>>

\* the client reads the response
ReadCatalogResponse ==
    /\ cresp # NoCatalogResponse
    /\ cresp' = NoCatalogResponse
    /\ UNCHANGED <<registryVars, accessVars, staffVars, catalog, assignments, directoryVars, trackVars, ledgerVars>>

CatalogNext ==
    \/ \E p \in Principals, param \in HiddenParams : ProjectList(p, param)
    \/ \E p \in Principals, param \in HiddenParams : AssignmentList(p, param)
    \/ \E p \in Principals, ids \in SUBSET ProjectIds, param \in HiddenParams :
          SummaryByProjectDept(p, ids, param)
    \/ \E p \in Principals, id \in ProjectIds, param \in HiddenParams :
          ProjectDestroy(p, id, param)
    \/ \E p \in Principals, a \in AssignmentIds, param \in HiddenParams :
          AssignmentDestroy(p, a, param)
    \/ ReadCatalogResponse
    \/ Tick

\* hidden projects on the list, summary and delete endpoints
CatalogSpec == Init /\ [][CatalogNext]_vars

(***************************************************************************)
(* Registration, verification and user management                          *)
(***************************************************************************)
\* UserRegistrationSerializer: validate_email, validate_password, validate
RegistrationStatus(u, pw, confirm) ==
    IF users[u].exists THEN "BadRequest"
    ELSE IF Len(pw) < MinPasswordLength THEN "BadRequest"
    ELSE IF pw # confirm THEN "BadRequest"
    ELSE "Created"

\* POST /api/register/: UserRegistrationView.create, UserRegistrationSerializer.create
Register(u, pw, confirm) ==
    LET status == RegistrationStatus(u, pw, confirm) IN
    /\ dresp = NoDirectoryResponse
    /\ IF status = "Created"
       THEN /\ users' = [users EXCEPT ![u] = UserRow(TRUE)]
            /\ password' = [password EXCEPT ![u] = pw]
       ELSE UNCHANGED <<users, password>>
    /\ dresp' = DirectoryResponse("register", Pm, u, status, "", <<>>)
    /\ UNCHANGED <<sessions, issued, now, pendingLogin, resp, project, presp,
                   accessVars, staffVars, catalogVars, verification, trackVars, ledgerVars>>

\* VerifyCodeView.post: the outcome of its chain of tests
VerifyCodeStatus(email, code) ==
    IF code = "" THEN "BadRequest"
    ELSE IF email = NoUser \/ ~users[email].exists THEN "NotFound"
    ELSE IF ~verification[email].exists THEN "NotFound"
    ELSE IF IsVerified(verification[email]) THEN "AlreadyVerified"
    ELSE IF MaxAttemptsReached(verification[email]) THEN "BadRequest"
    ELSE IF IsExpired(verification[email], now) THEN "BadRequest"
    ELSE IF verification[email].code # code THEN "WrongCode"
    ELSE "OK"

\* POST /api/verify-code/
VerifyCode(name, code) ==
    LET email == LookupUser(name)
        status == VerifyCodeStatus(email, code)
    IN
    /\ dresp = NoDirectoryResponse
    /\ IF status = "OK"
       THEN /\ users' = [users EXCEPT ![email].is_active = TRUE]
            /\ verification' = [verification EXCEPT ![email].verified_at = At(now)]
       ELSE IF status = "WrongCode"
       THEN /\ verification' = [verification EXCEPT ![email].attempts = @ + 1]
            /\ UNCHANGED users
       ELSE UNCHANGED <<users, verification>>
    /\ dresp' = DirectoryResponse("verify_code", Pm, email, status, code, <<>>)
    /\ UNCHANGED <<registryVars, accessVars, staffVars, catalogVars, trackVars, ledgerVars>>

\* the client reads the response
ReadDirectoryResponse ==
    /\ dresp # NoDirectoryResponse
    /\ dresp' = NoDirectoryResponse
    /\ UNCHANGED <<registryVars, accessVars, staffVars, catalogVars, users, verification, trackVars, ledgerVars>>

\* one registered user; the other address is free
DirectoryInit ==
    /\ QuietInit
    /\ password = [u \in Users |-> IF u = "ana" THEN "OldPass123!" ELSE ""]
    /\ users = [u \in Users |-> IF u = "ana" THEN UserRow(TRUE) ELSE NoSuchUser]
    /\ actor = Pm

DirectoryNext ==
    \/ SessionNext(MaxDirRows)
    \/ \E u \in Users, pw \in Passwords : \E confirm \in Confirmations(pw) :
          Register(u, pw, confirm)
    \/ \E name \in Usernames, code \in Codes : VerifyCode(name, code)
    \/ ReadDirectoryResponse

\* registration, verification and login
DirectorySpec == DirectoryInit /\ [][DirectoryNext]_vars

\* the principals that call the user-management endpoints
BiManager == Account(FALSE, FALSE, "OTHER", "Business Intelligence")
Root == Account(TRUE, TRUE, "", "")
StaffOnly == Account(FALSE, TRUE, "", "")
Managers == {BiManager, Root, StaffOnly, Pm, Prg}

\* GET /api/registered-users/ under IsBusinessIntelligenceManager
RegisteredUserList(by) ==
    /\ dresp = NoDirectoryResponse
    /\ dresp' = DirectoryResponse("user_list", by, NoUser,
                                  IF HasBiManagementAccess(by) THEN "OK" ELSE "Forbidden",
                                  "", <<>>)
    /\ UNCHANGED <<registryVars, accessVars, staffVars, catalogVars, users, verification, trackVars, ledgerVars>>

\* POST /api/registered-users/{id}/reset-password/ under IsBusinessIntelligenceManager
RegisteredUserResetPassword(by, u, new) ==
    /\ dresp = NoDirectoryResponse
    /\ new # ""
    /\ IF HasBiManagementAccess(by)
       THEN /\ password' = [password EXCEPT ![u] = new]
            /\ sessions' = InvalidateAll(sessions, u)
            /\ dresp' = DirectoryResponse("reset_password", by, u, "OK", password[u], sessions)
       ELSE /\ dresp' = DirectoryResponse("reset_password", by, u, "Forbidden",
                                          password[u], sessions)
            /\ UNCHANGED <<password, sessions>>
    /\ UNCHANGED <<issued, now, pendingLogin, resp, project, presp,
                   accessVars, staffVars, catalogVars, users, verification, trackVars, ledgerVars>>

BiNext ==
    \/ SessionNext(MaxDirRows)
    \/ \E by \in Managers : RegisteredUserList(by)
    \/ \E by \in Managers, u \in Users, new \in ResetPasswords :
          RegisteredUserResetPassword(by, u, new)
    \/ ReadDirectoryResponse

\* the user-management endpoints with the session registry
BiSpec == Init /\ [][BiNext]_vars

TypeOK ==
    /\ now \in 0..MaxTime
    /\ Len(sessions) <= MaxRows
    /\ Len(issued) = Len(sessions)

Stale(S, i) == S[i].last_activity < now - InactivityTimeout

(***************************************************************************)
(* C1: every principal has at most 2 active session rows in every          *)
(* reachable state, also when login requests of one principal interleave   *)
(* between the count and the insert.                                       *)
(***************************************************************************)
C1_AtMostTwoActive ==
    \A u \in Users : ActiveCount(sessions, u) <= MaxActiveSessions

(***************************************************************************)
(* C2: when a principal has exactly 2 active sessions, a login with valid  *)
(* credentials is not accepted; its rejection creates no session row,      *)
(* issues no credential and leaves the active count at 2.                  *)
(***************************************************************************)
C2_LoginAtCapRejected ==
    [][\A u \in Users :
          ActiveCount(sessions, u) = MaxActiveSessions =>
             /\ pendingLogin'[u] <= pendingLogin[u]
             /\ (resp'.op = "login" /\ resp'.user = u
                    /\ resp'.status = "TooManySessions")
                  => /\ sessions' = sessions
                     /\ issued' = issued
                     /\ ActiveCount(sessions', u) = MaxActiveSessions]_vars

C2_Witness ==
    /\ resp.op = "login"
    /\ resp.status = "TooManySessions"
    /\ ActiveCount(sessions, resp.user) = MaxActiveSessions
    /\ Len(issued) = MaxActiveSessions

(***************************************************************************)
(* C4: for two active sessions A and B of one principal, a logout made     *)
(* with A's credential leaves B's row unchanged; afterwards a status check *)
(* with B's credential succeeds and one with A's credential is answered    *)
(* Unauthorized.                                                           *)
(***************************************************************************)
C4_LogoutOnlyOwnSession ==
    /\ [][\A a, b \in DOMAIN sessions :
             (/\ resp'.op = "logout" /\ resp'.row = a
              /\ a # b /\ sessions[a].user = sessions[b].user
              /\ sessions[a].is_active /\ sessions[b].is_active
              /\ ~Stale(sessions, b))
             => sessions'[b] = sessions[b]]_vars
    /\ [](\A k \in DOMAIN sessions :
             (resp.op = "status" /\ resp.row = k) =>
                (resp.status = "Active" <=> sessions[k].is_active))

(***************************************************************************)
(* C5: a status check made with the credential of a session whose          *)
(* last_activity is older than the inactivity timeout answers Unauthorized *)
(* and leaves that session's stored active flag false.                     *)
(***************************************************************************)
C5_StaleSessionReportedInactive ==
    \A k \in DOMAIN sessions :
        (resp.op = "status" /\ resp.row = k /\ Stale(sessions, k)) =>
            (resp.status = "Unauthorized" /\ ~sessions[k].is_active)

(***************************************************************************)
(* C6: right after a successful password change or administrative reset    *)
(* none of the principal's sessions is active, a login with the old        *)
(* password is rejected and a login with the new password is accepted.     *)
(***************************************************************************)
C6_PasswordChangeInvalidatesSessions ==
    (resp.op \in {"change_password", "reset_password"} /\ resp.status = "OK") =>
        /\ ActiveRows(sessions, resp.user) = {}
        /\ LoginOutcome(sessions, password, resp.user, resp.new) = "Accepted"
        /\ resp.old # resp.new =>
              LoginOutcome(sessions, password, resp.user, resp.old) = "InvalidCredentials"

C6_Witness ==
    /\ resp.op = "change_password"
    /\ resp.status = "OK"
    /\ \E i \in DOMAIN sessions : sessions[i].user = resp.user
    /\ \E i \in DOMAIN sessions : sessions[i].user # resp.user /\ sessions[i].is_active

(***************************************************************************)
(* C7: no session row goes from inactive back to active and no row is      *)
(* removed; a login inserts one new row and changes no existing row.       *)
(***************************************************************************)
C7_InactiveIsTerminal ==
    [][/\ Len(sessions') >= Len(sessions)
       /\ \A i \in DOMAIN sessions :
             ~sessions[i].is_active => ~sessions'[i].is_active
       /\ issued' # issued =>
             /\ Len(sessions') = Len(sessions) + 1
             /\ SubSeq(sessions', 1, Len(sessions)) = sessions
             /\ sessions'[Len(sessions')].is_active]_vars

C7_Witness ==
    /\ resp.op = "login"
    /\ resp.status = "OK"
    /\ \E i \in DOMAIN sessions :
          sessions[i].user = resp.user /\ ~sessions[i].is_active
    /\ password[resp.user] = "NewPass456!"

\* the stage rows, budget hours and visibility of one department of a stored project
StageRowsOf(proj, d) == IF d \in StageKeys THEN proj.department_stages[d] ELSE <<>>
BudgetHoursOf(proj, d) ==
    IF d \in HoursKeys /\ d \in proj.budgets.has THEN proj.budgets.hours[d] ELSE 0
BudgetRowOf(proj, k) ==
    IF k \in proj.budgets.has THEN <<proj.budgets.hours[k]>> ELSE <<>>

(***************************************************************************)
(* C3: after an update by a department-scoped principal that was allowed   *)
(* and persisted, the shared fields are as before, and for every           *)
(* department the principal cannot edit the stage rows (all columns, also  *)
(* duration_weeks), the budget hours and the visibility membership are as  *)
(* before.                                                                 *)
(***************************************************************************)
C3_ScopedUpdateKeepsForeignData ==
    (presp.op = "update" /\ presp.status = "OK" /\ DepartmentScoped(presp.principal)) =>
        /\ project.shared = presp.before.shared
        /\ \A d \in Department : ~CanEditDepartment(presp.principal, d) =>
              /\ StageRowsOf(project, d) = StageRowsOf(presp.before, d)
              /\ BudgetHoursOf(project, d) = BudgetHoursOf(presp.before, d)
              /\ (d \in project.visible_in_departments
                    <=> d \in presp.before.visible_in_departments)

C10_DeniedUpdateWritesNothing ==
    (presp.op = "update" /\ presp.status = "Forbidden") =>
        /\ project.shared = presp.before.shared
        /\ project.visible_in_departments = presp.before.visible_in_departments
        /\ project.department_stages = presp.before.department_stages
        /\ project.budgets = presp.before.budgets

C10_Witness ==
    /\ presp.op = "update" /\ presp.status = "Forbidden"
    /\ DepartmentScoped(presp.principal)
    /\ presp.data \in ImportBodies
    /\ presp.before.department_stages # presp.data.department_stages.list
    /\ presp.before.budgets.has = {}

\* the attributes that make a principal elevated or a project manager or BI
Privileged(p) ==
    \/ p.is_superuser \/ p.is_staff
    \/ p.department = "PM"
    \/ p.department = "OTHER" /\ p.other_department = "Business Intelligence"

\* C11: for every combination of superuser flag, staff flag, department and
\* other-department a write check resolves exactly one tier; the tier is
\* FullAccess iff the principal is elevated, or of department PM, or of
\* department OTHER with other-department Business Intelligence; and a
\* principal with those attributes passes every write check, also when its
\* profile is OTHER with a classification other than Business Intelligence.
C11_FullAccessIffPrivileged ==
    verdict # NoVerdict =>
        /\ verdict.tier \in {"FullAccess", "ReadOnly", "DepartmentScoped"}
        /\ (verdict.tier = "FullAccess") <=> Privileged(actor)
        /\ Privileged(actor) =>
              /\ verdict.can_edit
              /\ verdict.employee = "Allowed"
              /\ verdict.assignment = "Allowed"
              /\ verdict.change_order = "Allowed"

\* a staff user whose profile is OTHER / Head Engineering has been answered
C11_Witness ==
    /\ actor = Account(FALSE, TRUE, "OTHER", "Head Engineering")
    /\ IsReadOnlyUser(actor)
    /\ verdict # NoVerdict
    /\ verdict.tier = "FullAccess"
    /\ verdict.employee = "Allowed"

\* C12: a department-scoped principal of department d can edit department
\* dept iff d = dept or both are in the shared group {BUILD, MFG}; a
\* principal without a resolvable department can edit none.
C12_ScopedEditIffOwnOrShared ==
    (verdict # NoVerdict /\ verdict.tier = "DepartmentScoped"
                         /\ verdict.department \in Department) =>
        LET d == actor.department
            dept == verdict.department
        IN /\ d = "" => ~verdict.can_edit
           /\ d # "" => (verdict.can_edit <=>
                            (d = dept \/ {d, dept} \subseteq {"BUILD", "MFG"}))

\* a BUILD principal has been answered about an MFG entity
C12_Witness ==
    /\ actor = Account(FALSE, FALSE, "BUILD", "")
    /\ verdict # NoVerdict
    /\ verdict.department = "MFG"
    /\ verdict.can_edit
    /\ verdict.assignment = "Allowed"

\* C13: a principal of department OTHER / Head Engineering may update an
\* Employee row of department MED, and the change is persisted, while its
\* update of a row of a department outside its allow-list is answered
\* Forbidden and leaves the row as it was.
C13_HeadEngineeringEditsMedEmployees ==
    (eresp.op = "update" /\ eresp.principal = HeadEng /\ eresp.data.department = "") =>
        IF eresp.before.department = "MED"
        THEN /\ eresp.status = "OK"
             /\ employees[eresp.id] = PatchedEmployee(eresp.before, eresp.data)
        ELSE /\ eresp.status = "Forbidden"
             /\ employees[eresp.id] = eresp.before

\* the projects of the rows of a list or summary response
RowProjects(r) ==
    IF r.op = "assignment_list" THEN { AssignmentProject(a) : a \in r.rows } ELSE r.rows

ListOps == {"project_list", "assignment_list", "summary"}

\* C14: on the project list, the assignment list and the summary by project
\* and department, a request with include_hidden=true succeeds only for a
\* full-access principal and is answered Forbidden for every other one, and
\* a request without include_hidden never returns a row of a hidden project.
C14_HiddenRowsOnlyForFullAccess ==
    cresp.op \in ListOps =>
        /\ cresp.param = "true" =>
              IF HasFullAccess(cresp.principal) THEN cresp.status = "OK"
              ELSE cresp.status = "Forbidden" /\ cresp.rows = {}
        /\ cresp.param = "" =>
              \A id \in RowProjects(cresp) : ~catalog[id].is_hidden
        /\ (\E id \in RowProjects(cresp) : catalog[id].is_hidden) =>
              HasFullAccess(cresp.principal)

\* with a hidden project that has an assignment, a PRG principal that asked
\* for the hidden rows of the summary has been refused
C14_Witness ==
    /\ cresp.op = "summary" /\ cresp.param = "true"
    /\ cresp.principal = Prg /\ cresp.status = "Forbidden"
    /\ catalog["beta"].is_hidden /\ "b1" \in assignments

\* C18: deleting a project is a soft delete open to full-access principals
\* only: the row stays, with is_hidden set and hidden_at recorded, and all
\* of its assignments remain; a hidden project and its assignments are
\* absent from the default lists and present in the lists requested with
\* include_hidden=true.
C18_DeleteHidesProject ==
    /\ (cresp.op = "destroy" /\ cresp.status = "NoContent") =>
          /\ HasFullAccess(cresp.principal)
          /\ catalog[cresp.target].is_hidden
          /\ catalog[cresp.target].hidden_at.set
          /\ assignments = cresp.kept
    /\ (cresp.op = "destroy" /\ cresp.status # "NoContent") =>
          catalog[cresp.target] = cresp.before
    /\ \A id \in ProjectIds : catalog[id].is_hidden =>
          /\ catalog[id].hidden_at.set
          /\ (cresp.op = "project_list" /\ cresp.param = "") => id \notin cresp.rows
          /\ (cresp.op = "assignment_list" /\ cresp.param = "") =>
                id \notin RowProjects(cresp)
          /\ (cresp.op = "project_list" /\ cresp.param = "true" /\ cresp.status = "OK") =>
                id \in cresp.rows
          /\ (cresp.op = "assignment_list" /\ cresp.param = "true"
                                           /\ cresp.status = "OK") =>
                \A a \in assignments : AssignmentProject(a) = id => a \in cresp.rows

\* a project that had an assignment has just been deleted by a project manager
C18_Witness ==
    /\ cresp.op = "destroy" /\ cresp.status = "NoContent"
    /\ cresp.principal = Pm /\ cresp.target = "alpha"
    /\ ~cresp.before.is_hidden
    /\ catalog["alpha"].is_hidden
    /\ "a1" \in assignments

\* C15: the access credential issued by a successful login carries a
\* session_id claim equal to the id of the session row which that login
\* created, so two logins of one principal name two different sessions.
C15_CredentialNamesItsSession ==
    \A k \in DOMAIN issued : issued[k].session_id = k

\* C16: a successful login records the principal's last_login: after it
\* the timestamp is set.
C16_LoginRecordsLastLogin ==
    (resp.op = "login" /\ resp.status = "OK") => users[resp.user].last_login.set

\* C19: registration creates an inactive user with an unverified six-digit
\* code, and a login succeeds only for a user that is active.
C19_LoginOnlyAfterVerification ==
    /\ (dresp.op = "register" /\ dresp.status = "Created") =>
          /\ ~users[dresp.target].is_active
          /\ verification[dresp.target].exists
          /\ Len(verification[dresp.target].code) = 6
          /\ ~IsVerified(verification[dresp.target])
    /\ (resp.op = "login" /\ resp.status = "OK") => users[resp.user].is_active

Signature(entries) ==
    [i \in DOMAIN entries |->
        <<entries[i].stage, entries[i].week_start, entries[i].week_end,
          entries[i].department_start_date>>]

\* the body resubmits what is stored for department d: the same stage
\* signature (or no stage rows on either side), the same hours, the same
\* visibility
Resubmitted(before, data, d) ==
    /\ data.department_stages.present =>
          IF d \in data.department_stages.keys
          THEN Signature(data.department_stages.list[d]) = Signature(StageRowsOf(before, d))
          ELSE StageRowsOf(before, d) = <<>>
    /\ data.department_hours_allocated.present =>
          \A k \in data.department_hours_allocated.keys :
              NormalizeDepartmentCode(k) = d =>
                  data.department_hours_allocated.hours[k] = ExistingHours(before, d)
    /\ data.visible_in_departments.present =>
          (d \in {NormalizeDepartmentCode(r) : r \in data.visible_in_departments.list}
             <=> d \in {NormalizeDepartmentCode(r) : r \in before.visible_in_departments})

C21_TrackingTouchesOnlyOwnSession ==
    /\ [][\A k \in DOMAIN issued :
             ApiRequest(k) =>
                \A i \in DOMAIN sessions :
                   /\ sessions'[i].last_activity # sessions[i].last_activity
                         => (i = k /\ sessions[i].is_active)
                   /\ sessions'[i].is_active # sessions[i].is_active
                         => (sessions[i].is_active /\ Stale(sessions, i))]_vars
    /\ [][\A k \in DOMAIN issued :
             SessionStatus(k) =>
                \A i \in DOMAIN sessions :
                   sessions'[i].last_activity = sessions[i].last_activity]_vars

(***************************************************************************)
(* C22: on every authenticated request on a tracked path the sweep runs    *)
(* before the last_activity update: every session of any principal that    *)
(* was active with last_activity older than now minus the timeout is       *)
(* inactive afterwards, the requester's own included, and such a session   *)
(* is not refreshed by the request that finds it stale.                    *)
(***************************************************************************)
C22_SweepBeforeTouch ==
    [][\A k \in DOMAIN issued :
          (\/ /\ resp' = NoResponse /\ now' = now /\ pendingLogin' = pendingLogin
              /\ ApiRequest(k)
           \/ /\ resp'.op = "logout" /\ resp'.row = k
              /\ \E r \in 0..MaxRows : Logout(k, r)) =>
             \A i \in DOMAIN sessions :
                (sessions[i].is_active /\ Stale(sessions, i)) =>
                   /\ ~sessions'[i].is_active
                   /\ sessions'[i].last_activity = sessions[i].last_activity]_vars

\* a logout request found the requester's only session stale: the row is
\* inactive and keeps its old last_activity
C22_Witness ==
    /\ resp.op = "logout"
    /\ Len(sessions) = 1
    /\ sessions[resp.row].user = resp.user
    /\ ~sessions[resp.row].is_active
    /\ sessions[resp.row].last_activity < now - InactivityTimeout

\* the rows a sweep with this threshold closes
SweepTargets(S, threshold) ==
    {i \in DOMAIN S : S[i].is_active /\ S[i].last_activity < threshold}

\* between two states: exactly the rows of T went from active to inactive and
\* nothing else changed
ClosedExactly(T) ==
    /\ Len(sessions') = Len(sessions)
    /\ \A i \in DOMAIN sessions :
          sessions'[i] = IF i \in T THEN [sessions[i] EXCEPT !.is_active = FALSE]
                         ELSE sessions[i]

(***************************************************************************)
(* C23: a sweep closes exactly the sessions that are active with           *)
(* last_activity strictly older than its threshold, changes no             *)
(* last_activity and no other row, and a second sweep with the same        *)
(* threshold changes nothing; when the statements of several requests      *)
(* interleave with login, touch, logout, status checks and the cleanup     *)
(* command, no closed session becomes active again and no sweep undoes a   *)
(* last_activity update.                                                   *)
(***************************************************************************)
C23_SweepIdempotentMonotone ==
    /\ [][\A r \in Workers :
             (inflight[r].pc = "sweep" /\ inflight'[r].pc = "pick" /\ SweepStep(r)) =>
                /\ ClosedExactly(SweepTargets(sessions, inflight[r].at - InactivityTimeout))
                /\ SweepTargets(sessions', inflight[r].at - InactivityTimeout) = {}]_vars
    /\ [][\A minutes \in MinutesOptions :
             (now' = now /\ inflight' = inflight /\ CleanupCommand(minutes)) =>
                /\ ClosedExactly(SweepTargets(sessions, now - minutes))
                /\ SweepTargets(sessions', now - minutes) = {}]_vars
    /\ [][\A i \in DOMAIN sessions :
             ~sessions[i].is_active => ~sessions'[i].is_active]_vars

\* a request selected its latest active session and, before its save, another
\* request closed that session
C23_Witness ==
    \E r \in Workers :
       /\ inflight[r].pc = "save"
       /\ ~sessions[inflight[r].row].is_active

\* the rows a logout with credential k and body value refresh is to close,
\* among the sessions that the request's sweep leaves active
LogoutExpected(k, refresh) ==
    {i \in DOMAIN sessions :
        /\ sessions[i].user = issued[k].user_id
        /\ sessions[i].is_active /\ ~Stale(sessions, i)
        /\ IF issued[k].session_id # NoClaim THEN i = issued[k].session_id
           ELSE IF refresh # NoRefresh THEN sessions[i].refresh_token = refresh
           ELSE TRUE}

C25_TrackingNeverBlocks ==
    /\ [](handoff # NoHandoff => handoff.outcome = "view")
    /\ [][\A path \in Paths, kind \in HeaderKinds \ {"valid"}, k \in 0..MaxRows :
             (/\ handoff'.path = path /\ handoff'.kind = kind
              /\ TrackedRequest(path, Header(kind, k))) => sessions' = sessions]_vars

\* a malformed bearer token on a tracked path was handed to the view while a
\* stale session was still active: the request did not even sweep
C25_Witness ==
    /\ handoff.kind = "malformed"
    /\ handoff.path \notin ExcludedPaths
    /\ handoff.outcome = "view"
    /\ \E i \in DOMAIN sessions : sessions[i].is_active /\ Stale(sessions, i)

\* between two states: the session went from active to inactive
Closed(i) == sessions[i].is_active /\ ~sessions'[i].is_active

(***************************************************************************)
(* C26: every entry point that runs the inactivity sweep (a tracked        *)
(* request, the status check, the cleanup command with or without          *)
(* --minutes) uses a timeout of at least one minute, whatever value is     *)
(* configured or supplied, so none of them closes a session whose          *)
(* last_activity is less than a minute old.                                *)
(***************************************************************************)
C26_TimeoutFloor ==
    /\ [][\A k \in DOMAIN issued :
             (ApiRequest(k) \/ SessionStatus(k)) =>
                \A i \in DOMAIN sessions :
                   Closed(i) => sessions[i].last_activity <= now - MinTimeoutMinutes]_vars
    /\ [][\A minutes \in MinutesOptions :
             CleanupCommand(minutes) =>
                \A i \in DOMAIN sessions :
                   Closed(i) => sessions[i].last_activity <= now - MinTimeoutMinutes]_vars

(***************************************************************************)
(* C27: a department-scoped principal never updates an employee whose      *)
(* current department it cannot edit, whatever department the request      *)
(* body names.                                                             *)
(***************************************************************************)
C27_ScopedWriteNeedsCurrentDepartment ==
    (/\ eresp.op = "update" /\ eresp.status = "OK"
     /\ DepartmentScoped(eresp.principal))
    => CanEditDepartment(eresp.principal, eresp.before.department)

(***************************************************************************)
(* C28: through the update-budget-hours action a read-only principal, or a *)
(* department-scoped principal naming a department it cannot edit, is      *)
(* answered Forbidden and the budget rows stay as they were: no row is     *)
(* created and no hours_utilized or hours_forecast changes.                *)
(***************************************************************************)
C28_BudgetHoursUnderPolicy ==
    (/\ lresp.op = "update_budget_hours"
     /\ \/ IsReadOnlyUser(lresp.principal)
        \/ /\ DepartmentScoped(lresp.principal)
           /\ ~CanEditDepartment(lresp.principal, lresp.department))
    => (lresp.status = "Forbidden" /\ ledger = lresp.before)

(***************************************************************************)
(* C29: login counts the sessions by their stored active flag and never    *)
(* runs the sweep: while a principal has two sessions flagged active, even *)
(* if both are stale, no login of that principal is accepted and the       *)
(* login changes no session; a login is answered TooManySessions only in   *)
(* such a state, so once a sweep has cleared the flags the next login      *)
(* passes the count.                                                       *)
(***************************************************************************)
C29_LoginCountsFlagsOnly ==
    /\ [][\A u \in Users :
             ActiveCount(sessions, u) >= MaxActiveSessions =>
                pendingLogin'[u] <= pendingLogin[u]]_vars
    /\ [][\A name \in Usernames, pw \in ResetPasswords :
             LoginCheck(name, pw, MaxRows) => sessions' = sessions]_vars
    /\ [](resp.op = "login" /\ resp.status = "TooManySessions"
             => ActiveCount(sessions, resp.user) >= MaxActiveSessions)

\* a login was rejected although both active sessions of the principal are stale
C29_Witness ==
    /\ resp.op = "login"
    /\ resp.status = "TooManySessions"
    /\ ActiveCount(sessions, resp.user) = MaxActiveSessions
    /\ \A i \in ActiveRows(sessions, resp.user) : Stale(sessions, i)

(***************************************************************************)
(* C30: logout frees a login slot: a logout that closes a session of a     *)
(* principal at the cap of two leaves fewer than two sessions flagged      *)
(* active, the next login with valid credentials passes the count, and it  *)
(* inserts a new active row, raising the count by one and leaving every    *)
(* older row as it was.                                                    *)
(***************************************************************************)
C30_LogoutFreesSlot ==
    /\ [][\A k \in DOMAIN issued, r \in 0..MaxRows :
             (/\ resp'.op = "logout" /\ resp'.row = k
              /\ ActiveCount(sessions, issued[k].user_id) = MaxActiveSessions
              /\ LogoutExpected(k, r) # {}
              /\ Logout(k, r))
             => ActiveCount(sessions', issued[k].user_id) < MaxActiveSessions]_vars
    /\ [][\A u \in Users :
             (/\ resp = NoResponse
              /\ ActiveCount(sessions, u) < MaxActiveSessions
              /\ Len(sessions) + TotalPending < MaxRows /\ TotalPending < MaxInflight
              /\ LoginCheck(u, password[u], MaxRows))
             => pendingLogin'[u] = pendingLogin[u] + 1]_vars
    /\ [][\A u \in Users :
             (resp'.op = "login" /\ resp'.status = "OK" /\ LoginInsert(u)) =>
                /\ Len(sessions') = Len(sessions) + 1
                /\ sessions'[Len(sessions')].user = u
                /\ sessions'[Len(sessions')].is_active
                /\ ActiveCount(sessions', u) = ActiveCount(sessions, u) + 1
                /\ \A i \in DOMAIN sessions : sessions'[i] = sessions[i]]_vars

\* after a logout closed one of two sessions, a login of the same principal
\* succeeded with a third row and the count is back at two
C30_Witness ==
    /\ resp.op = "login" /\ resp.status = "OK"
    /\ Len(sessions) = MaxActiveSessions + 1
    /\ \A i \in DOMAIN sessions : sessions[i].user = resp.user
    /\ ActiveCount(sessions, resp.user) = MaxActiveSessions
    /\ \E i \in DOMAIN sessions :
          /\ ~sessions[i].is_active
          /\ sessions[i].last_activity >= now - InactivityTimeout

====
